---- MODULE Spec2Model ----
(***************************************************************************)
(* State-machine model of the balance dashboard in src/main.py.            *)
(*                                                                         *)
(* One browser session runs main() from the top on every user interaction  *)
(* (the hosting framework's rerun); st.session_state (accounts,            *)
(* balance_history) survives the reruns, addresses.json is the persisted   *)
(* list.  A script run handles the sidebar (Add / Delete), fetches every   *)
(* tracked address once (lines 116-127) and then sits in the refresh loop  *)
(* (lines 164-210), which refetches every REFRESH_INTERVAL one-second      *)
(* ticks.  A run ends when the tracked list is empty (line 111) or when an *)
(* exception leaves main().                                                *)
(***************************************************************************)
EXTENDS Integers, Sequences, FiniteSets, TLC

VARIABLES
    accounts,         \* st.session_state.accounts: list of addresses
    balance_history,  \* st.session_state.balance_history: address -> list of (time, balance)
    file,             \* addresses.json: [exists, content]
    pc,               \* position of the script run
    refresh_counter,  \* local of the refresh loop (line 164)
    idx,              \* position of "for account in accounts" (line 63), 1-based
    updated_data,     \* local of update_accounts_data (line 62)
    data,             \* value returned by the last fetch_account_data call (line 64)
    resp,             \* what the endpoint answered to the last request
    now,              \* last reading of datetime.now()
    notice            \* last sidebar message emitted (st.success / st.warning)

vars == <<accounts, balance_history, file, pc, refresh_counter, idx,
          updated_data, data, resp, now, notice>>

(***************************************************************************)
(* Bounds and program constants                                            *)
(***************************************************************************)
\* Number of clock readings modelled: datetime.now() is read once per cycle
\* that records something, and the model stops starting cycles after that many.
MaxTime == 2

REFRESH_INTERVAL == 30

DIVISOR == 100000000

(***************************************************************************)
(* Numbers.  A balance in subunits and the significand of a Python float   *)
(* exceed the integers of the model checker, so an integer is kept as its  *)
(* digits in base 10^4, lowest digit first.                                *)
(***************************************************************************)
Zero == <<0, 0, 0, 0, 0, 0, 0>>

\* Base * Base = DIVISOR
Base == 10 ^ 4

\* F(e), with e evaluated once, before F is applied
Strict(e, F(_)) == CHOOSE r \in {F(y) : y \in {e}} : TRUE

\* The integer whole * 10^8 + frac, for 0 <= frac < 10^8
Num(whole, frac) ==
    <<frac % Base, frac \div Base,
      whole % Base, (whole \div Base) % Base, whole \div (Base * Base), 0, 0>>

\* x div 10^8 (for x below 2^31 * 10^8) and x mod 10^8
Whole(x) == x[3] + Base * x[4] + Base * Base * x[5]

Frac(x) == x[1] + Base * x[2]

Odd(x) == x[1] % 2 = 1

\* x * m + c, for 0 < m <= 2^16 and 0 <= c <= m
TimesPlus(x, m, c) ==
    LET t1 == m * x[1] + c
        t2 == m * x[2] + t1 \div Base
        t3 == m * x[3] + t2 \div Base
        t4 == m * x[4] + t3 \div Base
        t5 == m * x[5] + t4 \div Base
        t6 == m * x[6] + t5 \div Base
        t7 == m * x[7] + t6 \div Base
    IN <<t1 % Base, t2 % Base, t3 % Base, t4 % Base, t5 % Base, t6 % Base, t7 % Base>>

Times(x, m) == TimesPlus(x, m, 0)

Succ(x) == TimesPlus(x, 1, 1)

\* x div m and x mod m, for 0 < m <= 2^16
DivMod(x, m) ==
    LET t7 == x[7]
        t6 == (t7 % m) * Base + x[6]
        t5 == (t6 % m) * Base + x[5]
        t4 == (t5 % m) * Base + x[4]
        t3 == (t4 % m) * Base + x[3]
        t2 == (t3 % m) * Base + x[2]
        t1 == (t2 % m) * Base + x[1]
    IN [q |-> <<t1 \div m, t2 \div m, t3 \div m, t4 \div m, t5 \div m, t6 \div m,
                t7 \div m>>,
        r |-> t1 % m]

\* x < y
Less(x, y) ==
    \E i \in DOMAIN x : x[i] < y[i] /\ \A j \in DOMAIN x : j > i => x[j] = y[j]

\* x * 10^8 and x div 10^8
TimesDivisor(x) == <<0, 0>> \o SubSeq(x, 1, Len(x) - 2)

DivDivisor(x) == SubSeq(x, 3, Len(x)) \o <<0, 0>>

\* 2^k
RECURSIVE Pow2(_)
Pow2(k) ==
    IF k <= 16 THEN Times(Num(0, 1), 2 ^ k)
    ELSE Strict(Pow2(k - 16), LAMBDA y : Times(y, 2 ^ 16))

\* Addresses the user types; "" is the empty text input, " " is whitespace only.
Addr == {"a1", "a2"}

Inputs == Addr \cup {"", " "}

\* Subunit balance the chain holds for each address (a zero balance included);
\* it is what a successful request reports.
BalanceOf(address) == IF address = "a2" THEN Num(2, 50000000) ELSE Zero

FailKinds == {"network", "status", "no_data", "no_balance", "data_null"}

\* Answers of the endpoint to one GET: a transport error, a non-2xx status,
\* or a decoded body without 'data', with 'data' lacking 'balance', with
\* 'data': null, or with data.balance = n.
Responses(address) == {[kind |-> k, balance |-> Zero] : k \in FailKinds}
                      \cup {[kind |-> "ok", balance |-> BalanceOf(address)]}

NoResp == [kind |-> "none", balance |-> Zero]

(***************************************************************************)
(* List helpers                                                            *)
(***************************************************************************)
Range(s) == {s[i] : i \in 1..Len(s)}

NoDup(s) == \A i, j \in 1..Len(s) : s[i] = s[j] => i = j

\* s without its element at position i
RemoveAt(s, i) == [k \in 1..(Len(s) - 1) |-> IF k < i THEN s[k] ELSE s[k + 1]]

FirstIndex(s, a) == CHOOSE i \in 1..Len(s) : s[i] = a /\ \A k \in 1..(i - 1) : s[k] # a

\* A removal that fills the hole with the last element
ListRemove_SwapLast(s, a) ==
    [k \in 1..(Len(s) - 1) |-> IF k = FirstIndex(s, a) THEN s[Len(s)] ELSE s[k]]

\* list.remove(a): drops the first occurrence of a
ListRemove(s, a) == RemoveAt(s, FirstIndex(s, a))

\* Duplicate-free lists over a set of addresses
Lists(S) == {s \in UNION {[1..n -> S] : n \in 0..Cardinality(S)} : NoDup(s)}

(***************************************************************************)
(* AddressStore: load_addresses / save_addresses                           *)
(***************************************************************************)
\* The file's content is JSON text, kept as its sequence of tokens
\* <<kind, value>>: "[", "]", "," and "s" (a string literal).
NoFile == [exists |-> FALSE, content |-> <<>>]

RECURSIVE DumpItems(_)
DumpItems(list) ==
    IF list = <<>> THEN <<>>
    ELSE IF Len(list) = 1 THEN << <<"s", list[1]>> >>
    ELSE << <<"s", Head(list)>>, <<",", "">> >> \o DumpItems(Tail(list))

\* list without the repetitions of its elements
RECURSIVE Dedup(_)
Dedup(list) ==
    IF list = <<>> THEN <<>>
    ELSE <<Head(list)>> \o Dedup(SelectSeq(Tail(list), LAMBDA x : x # Head(list)))

\* The list written as a set of its elements
json_dump_AsSet(list) == << <<"[", "">> >> \o DumpItems(Dedup(list)) \o << <<"]", "">> >>

\* json.dump of a list of strings
json_dump(list) == << <<"[", "">> >> \o DumpItems(list) \o << <<"]", "">> >>

\* The items between the brackets: string ("," string)*
RECURSIVE LoadItems(_)
LoadItems(text) ==
    IF text[1][1] # "s" THEN [ok |-> FALSE, value |-> <<>>]
    ELSE IF Len(text) = 1 THEN [ok |-> TRUE, value |-> <<text[1][2]>>]
    ELSE IF Len(text) = 2 \/ text[2][1] # "," THEN [ok |-> FALSE, value |-> <<>>]
    ELSE LET rest == LoadItems(SubSeq(text, 3, Len(text))) IN
         [ok |-> rest.ok, value |-> IF rest.ok THEN <<text[1][2]>> \o rest.value ELSE <<>>]

\* json.load of a text that should hold one list of strings; ok is FALSE
\* where json.load raises JSONDecodeError (no document, extra data, ...)
json_load(text) ==
    IF Len(text) < 2 \/ text[1][1] # "[" \/ text[Len(text)][1] # "]"
      THEN [ok |-> FALSE, value |-> <<>>]
    ELSE IF Len(text) = 2 THEN [ok |-> TRUE, value |-> <<>>]
    ELSE LoadItems(SubSeq(text, 2, Len(text) - 1))

\* The value load_addresses returns (lines 21-24) where it returns
load_addresses(f) == IF f.exists THEN json_load(f.content).value ELSE <<>>

\* json.load raises JSONDecodeError on a file that holds no JSON document;
\* line 23 catches FileNotFoundError only.
LoadRaises(f) == f.exists /\ ~json_load(f.content).ok

\* The file opened in append mode
save_addresses_AppendMode(f, addresses) ==
    [exists |-> TRUE, content |-> f.content \o json_dump(addresses)]

\* open('addresses.json', 'w') truncates the file f, json.dump writes the list
save_addresses(f, addresses) == [exists |-> TRUE, content |-> json_dump(addresses)]

(***************************************************************************)
(* BalanceFetcher: fetch_account_data                                      *)
(***************************************************************************)
None == [tag |-> "None"]

\* Bits of the significand of a Python float (IEEE 754 binary64)
MANT_DIG == 53

\* The least significand of MANT_DIG bits
MinMant == Pow2(MANT_DIG - 1)

\* The least x with x / 10^8 >= MinMant
MinScaled == TimesDivisor(MinMant)

\* x doubled 16 times at a time while it stays below MinScaled, and the
\* number of doublings added to s
RECURSIVE ScaleUp16(_, _)
ScaleUp16(x, s) ==
    IF Less(x, DivMod(MinScaled, 2 ^ 16).q)
    THEN Strict(Times(x, 2 ^ 16), LAMBDA y : ScaleUp16(y, s + 16))
    ELSE [x |-> x, s |-> s]

\* The least s with x * 2^s >= MinScaled, and x * 2^s, for 0 < x < MinScaled
\* (MinScaled is a multiple of 2^16)
ScaleUp(x) ==
    Strict(ScaleUp16(x, 0),
           LAMBDA sc :
               LET k == CHOOSE j \in 0..16 :
                            /\ ~Less(sc.x, DivMod(MinScaled, 2 ^ j).q)
                            /\ j > 0 => Less(sc.x, DivMod(MinScaled, 2 ^ (j - 1)).q)
               IN [x |-> Times(sc.x, 2 ^ k), s |-> sc.s + k])

\* x rounded to the nearest integer, for x = q + (half + sticky) with
\* half the bit below the unit and sticky the bits below it: ties to even
RoundHalfEven(q, half, sticky) == IF half /\ (sticky \/ Odd(q)) THEN Succ(q) ELSE q

\* data['data']['balance'] / 100000000 for an int n with 0 <= n < 2^52 * 10^8:
\* true division gives the float nearest to the quotient, ties to even.
\* The float is mant / 2^exp.
Convert(n) ==
    IF n = Zero THEN [mant |-> Zero, exp |-> 0]
    ELSE Strict(ScaleUp(n),
                LAMBDA sc : [mant |-> RoundHalfEven(DivDivisor(sc.x),
                                                    2 * Frac(sc.x) >= DIVISOR,
                                                    2 * Frac(sc.x) # DIVISOR),
                             exp |-> sc.s])

\* k binary places dropped from st.q, 0 < k <= 16: half is the place dropped
\* last, sticky tells whether a place dropped before it was 1
DropPlaces(st, k) ==
    Strict(DivMod(st.q, 2 ^ k),
           LAMBDA d : [q |-> d.q,
                       half |-> d.r >= 2 ^ (k - 1),
                       sticky |-> st.sticky \/ st.half \/ d.r % (2 ^ (k - 1)) # 0])

\* k binary places dropped, 16 at a time
RECURSIVE ShiftRight(_, _)
ShiftRight(st, k) ==
    IF k = 0 THEN st
    ELSE IF k <= 16 THEN DropPlaces(st, k)
    ELSE Strict(DropPlaces(st, 16), LAMBDA y : ShiftRight(y, k - 16))

\* '{:.8f}'.format(x) (line 133): the decimal with 8 places nearest to the
\* float, ties to even, as <<whole part, the 8 places>>
Format8f(x) ==
    Strict(ShiftRight([q |-> TimesDivisor(x.mant), half |-> FALSE,
                       sticky |-> FALSE], x.exp),
           LAMBDA sh : Strict(RoundHalfEven(sh.q, sh.half, sh.sticky),
                              LAMBDA d : <<Whole(d), Frac(d)>>))

\* The call's outcome: the value returned, or an exception leaving the call.
\* RequestException (transport error, raise_for_status) is caught and gives
\* None; a missing 'data' or 'balance' key gives None; 'data': null makes
\* "'balance' not in data['data']" raise TypeError, which is not caught.
fetch_account_data(address, r) ==
    CASE r.kind = "ok" ->
            [raised |-> FALSE,
             ret |-> [tag |-> "dict", address |-> address, balance |-> Convert(r.balance)]]
      [] r.kind \in {"network", "status", "no_data", "no_balance"} ->
            [raised |-> FALSE, ret |-> None]
      [] OTHER ->
            [raised |-> TRUE, ret |-> None]

\* "if data:" (line 65): None is falsy, a non-empty dict is truthy
Truthy(d) == d # None

(***************************************************************************)
(* HistoryAccumulator: the append loop of lines 124-127 / 175-178          *)
(***************************************************************************)
\* An assignment in place of the append
HistAppend_Overwrite(h, address, sample) == [h EXCEPT ![address] = <<sample>>]

HistAppend(h, address, sample) == [h EXCEPT ![address] = Append(@, sample)]

\* Appends (t, balance) for every element of ud, in order; stops with a
\* KeyError at the first address that has no history entry.
RECURSIVE RecordAll(_, _, _)
RecordAll(h, ud, t) ==
    IF ud = <<>> THEN [h |-> h, err |-> FALSE]
    ELSE IF Head(ud).address \notin DOMAIN h THEN [h |-> h, err |-> TRUE]
    ELSE RecordAll(HistAppend(h, Head(ud).address, <<t, Head(ud).balance>>), Tail(ud), t)

\* Keeps the model finite: a fetch cycle starts only while the clock has room.
Room == now < MaxTime

(***************************************************************************)
(* Initial state: before the first script run of the session               *)
(***************************************************************************)
Init ==
    /\ accounts = <<>>
    /\ balance_history = [a \in {} |-> <<>>]
    /\ file \in {NoFile} \cup {save_addresses(NoFile, s) : s \in Lists(Addr)}
    /\ pc = "start"
    /\ refresh_counter = 0
    /\ idx = 0
    /\ updated_data = <<>>
    /\ data = None
    /\ resp = NoResp
    /\ now = 0
    /\ notice = "none"

\* Lines 111-116 and 164: with no tracked address the run ends, otherwise
\* update_accounts_data starts.
EnterMain(acc) ==
    /\ pc' = IF acc = <<>> THEN "ended" ELSE "initial"
    /\ idx' = IF acc = <<>> THEN 0 ELSE 1
    /\ updated_data' = <<>>
    /\ refresh_counter' = 0
    /\ data' = None
    /\ resp' = NoResp

\* State of a script run that an exception ended before the fetch
Aborted ==
    /\ pc' = "crashed"
    /\ idx' = 0
    /\ updated_data' = <<>>
    /\ refresh_counter' = 0
    /\ data' = None
    /\ resp' = NoResp

\* Positions at which a widget event reruns the script
Interactive == {"idle", "ended", "crashed"}

\* First run of the session (lines 77-80), no button pressed
Startup ==
    /\ pc = "start"
    /\ accounts' = load_addresses(file)
    /\ balance_history' = [a \in Range(accounts') |-> <<>>]
    /\ EnterMain(accounts')
    /\ UNCHANGED <<file, now, notice>>

\* An event arriving during a fetch is served at the next framework call,
\* which comes after the history append; a new run starts a fetch cycle, so
\* it is admitted only while the clock has room.
CanRerun == pc \in Interactive /\ Room

\* The new address left without an entry
HistCreate_Skip(h, new_account) == h

\* st.session_state.balance_history[new_account] = [] (line 89)
HistCreate(h, new_account) ==
    [a \in DOMAIN h \cup {new_account} |-> IF a = new_account THEN <<>> ELSE h[a]]

\* The test of line 87 without its membership half
AddAccepts_NoDuplicateCheck(new_account, acc) == new_account # ""

\* Line 87: the input is accepted when it is a non-empty string not yet tracked
AddAccepts(new_account, acc) == new_account # "" /\ new_account \notin Range(acc)

\* "Add Account" pressed with new_account in the text input (lines 85-96),
\* followed by the rest of the run up to the start of the fetch.
AddAccount(new_account) ==
    /\ CanRerun
    /\ IF AddAccepts(new_account, accounts)
         THEN /\ accounts' = Append(accounts, new_account)
              /\ balance_history' = HistCreate(balance_history, new_account)
              /\ file' = save_addresses(file, accounts')
              /\ notice' = "added"
         ELSE /\ notice' = IF new_account \in Range(accounts) THEN "duplicate" ELSE "invalid"
              /\ UNCHANGED <<accounts, balance_history, file>>
    /\ EnterMain(accounts')
    /\ UNCHANGED now

\* The entry emptied in place of deleted
HistDrop_Clear(h, account) == [a \in DOMAIN h |-> IF a = account THEN <<>> ELSE h[a]]

\* del st.session_state.balance_history[account] (line 105)
HistDrop(h, account) == [a \in DOMAIN h \ {account} |-> h[a]]

\* The removal run for whatever address the request names
DeleteListed_Always(account, acc) == TRUE

\* Line 100: the loop that holds the removal runs over the tracked list
\* only, so a request is served when it names a listed account.
DeleteListed(account, acc) == account \in Range(acc)

\* A Delete request for account (lines 100-108).  For a listed account the
\* removal is done and st.rerun() restarts the script, which runs on to the
\* start of the fetch.  A request that names no listed account (the button
\* went away with the account) meets no iteration of the loop: the script
\* just runs on.  list.remove of an absent element would raise ValueError.
DeleteAccount(account) ==
    /\ pc \in Interactive
    /\ IF ~DeleteListed(account, accounts)
         THEN /\ Room
              /\ EnterMain(accounts)
              /\ UNCHANGED <<accounts, balance_history, file, notice>>
         ELSE IF account \notin Range(accounts)
         THEN /\ Aborted
              /\ UNCHANGED <<accounts, balance_history, file, notice>>
         ELSE /\ account \in DOMAIN balance_history
              /\ Room \/ Len(accounts) = 1
              /\ accounts' = ListRemove(accounts, account)
              /\ balance_history' = HistDrop(balance_history, account)
              /\ file' = save_addresses(file, accounts')
              /\ notice' = "deleted"
              /\ EnterMain(accounts')
    /\ UNCHANGED now

\* A rerun with no button pressed (the text input was edited)
Rerun ==
    /\ CanRerun
    /\ EnterMain(accounts)
    /\ UNCHANGED <<accounts, balance_history, file, now, notice>>

InCycle == pc \in {"initial", "refreshing"}

\* An iteration that untracks the address whose fetch gave nothing
FetchStep_DropsFailed ==
    /\ InCycle
    /\ idx <= Len(accounts)
    /\ \E r \in Responses(accounts[idx]) :
          LET out == fetch_account_data(accounts[idx], r) IN
          /\ resp' = r
          /\ data' = out.ret
          /\ IF Truthy(out.ret)
               THEN /\ updated_data' = Append(updated_data, out.ret)
                    /\ idx' = idx + 1
                    /\ UNCHANGED <<accounts, file>>
               ELSE /\ accounts' = ListRemove(accounts, accounts[idx])
                    /\ file' = save_addresses(file, accounts')
                    /\ UNCHANGED <<updated_data, idx>>
    /\ UNCHANGED <<balance_history, pc, refresh_counter, now, notice>>

\* One iteration of "for account in accounts" (lines 63-66): one request,
\* one answer.  An exception leaving fetch_account_data leaves main() too.
FetchStep ==
    /\ InCycle
    /\ idx <= Len(accounts)
    /\ \E r \in Responses(accounts[idx]) :
          LET out == fetch_account_data(accounts[idx], r) IN
          /\ resp' = r
          /\ IF out.raised
               THEN /\ pc' = "crashed"
                    /\ idx' = 0
                    /\ updated_data' = <<>>
                    /\ data' = None
                    /\ refresh_counter' = 0
               ELSE /\ data' = out.ret
                    /\ updated_data' = IF Truthy(out.ret) THEN Append(updated_data, out.ret)
                                       ELSE updated_data
                    /\ idx' = idx + 1
                    /\ UNCHANGED <<pc, refresh_counter>>
    /\ UNCHANGED <<accounts, balance_history, file, now, notice>>

\* The loop left after its first iteration
AllFetched_AfterFirst(i, acc) == i > 1

\* Lines 63-68: update_accounts_data returns when its for loop is exhausted
AllFetched(i, acc) == i > Len(acc)

\* update_accounts_data has returned: lines 119-127 (first fetch of the run)
\* or 172-178 (timed refresh); then refresh_counter is set to 0 (line 164,
\* line 207) whatever the list holds.  datetime.now() is read once, only
\* when the list of results is not empty; the wall clock is taken to move
\* forward between two readings.
RecordCycle ==
    /\ InCycle
    /\ AllFetched(idx, accounts)
    /\ LET rec == RecordAll(balance_history, updated_data, now + 1) IN
          /\ balance_history' = rec.h
          /\ now' = IF updated_data # <<>> THEN now + 1 ELSE now
          /\ pc' = IF rec.err THEN "crashed" ELSE "idle"
    /\ refresh_counter' = 0
    /\ idx' = 0
    /\ updated_data' = <<>>
    /\ data' = None
    /\ resp' = NoResp
    /\ UNCHANGED <<accounts, file, notice>>

\* The test of line 169 with > in place of >=
RefreshDue_Strict(counter) == counter > REFRESH_INTERVAL

\* Line 169
RefreshDue(counter) == counter >= REFRESH_INTERVAL

\* One pass of the refresh loop up to the test of line 169: sleep one
\* second, count it, and either start the timed refresh or show the
\* countdown (line 210).
Tick ==
    /\ pc = "idle"
    /\ refresh_counter' = refresh_counter + 1
    /\ IF RefreshDue(refresh_counter')
         THEN /\ Room
              /\ pc' = "refreshing"
              /\ idx' = 1
         ELSE UNCHANGED <<pc, idx>>
    /\ UNCHANGED <<accounts, balance_history, file, updated_data, data, resp, now, notice>>

Next ==
    \/ Startup
    \/ \E new_account \in Inputs : AddAccount(new_account)
    \/ \E account \in Inputs : DeleteAccount(account)
    \/ Rerun
    \/ FetchStep
    \/ RecordCycle
    \/ Tick

Spec == Init /\ [][Next]_vars

(***************************************************************************)
(* The same session on a disk that can fail, with page reloads             *)
(***************************************************************************)
\* addresses.json after open(..., 'w') truncated it and the write failed:
\* the file exists and holds no JSON document.
Truncated == [exists |-> TRUE, content |-> <<>>]

\* What a save_addresses call that raises OSError can leave behind: the old
\* file (open failed) or the truncated one (json.dump failed).
FailedWrite(f) == {f, Truncated}

\* Lines 87-90 with save_addresses raising: the list and the history are
\* already changed, the exception leaves main() before line 91.
AddAccountWriteFails(new_account) ==
    /\ pc \in Interactive
    /\ AddAccepts(new_account, accounts)
    /\ accounts' = Append(accounts, new_account)
    /\ balance_history' = HistCreate(balance_history, new_account)
    /\ file' \in FailedWrite(file)
    /\ Aborted
    /\ UNCHANGED <<now, notice>>

\* Lines 104-106 with save_addresses raising: st.rerun() is not reached.
DeleteAccountWriteFails(account) ==
    /\ pc \in Interactive
    /\ account \in Range(accounts)
    /\ account \in DOMAIN balance_history
    /\ accounts' = ListRemove(accounts, account)
    /\ balance_history' = HistDrop(balance_history, account)
    /\ file' \in FailedWrite(file)
    /\ Aborted
    /\ UNCHANGED <<now, notice>>

\* First run of a session on a file json.load cannot decode (line 22): the
\* exception leaves main() with st.session_state still empty, and every
\* later run of the session fails at the same line.
StartupFails ==
    /\ pc = "start"
    /\ LoadRaises(file)
    /\ pc' = "load_failed"
    /\ UNCHANGED <<accounts, balance_history, file, refresh_counter, idx,
                   updated_data, data, resp, now, notice>>

\* The page is reloaded: a new session starts with an empty st.session_state
\* (lines 77-80 run again); the file stays.  Its first run starts a fetch
\* cycle, so it is admitted only while the clock has room.
Reload ==
    /\ pc \in Interactive \cup {"load_failed"}
    /\ Room
    /\ accounts' = <<>>
    /\ balance_history' = [a \in {} |-> <<>>]
    /\ pc' = "start"
    /\ idx' = 0
    /\ updated_data' = <<>>
    /\ refresh_counter' = 0
    /\ data' = None
    /\ resp' = NoResp
    /\ notice' = "none"
    /\ UNCHANGED <<file, now>>

NextIO ==
    \/ Startup /\ ~LoadRaises(file)
    \/ StartupFails
    \/ \E new_account \in Inputs : AddAccount(new_account)
    \/ \E new_account \in Inputs : AddAccountWriteFails(new_account)
    \/ \E account \in Inputs : DeleteAccount(account)
    \/ \E account \in Inputs : DeleteAccountWriteFails(account)
    \/ Rerun
    \/ Reload
    \/ FetchStep
    \/ RecordCycle
    \/ Tick

SpecIO == Init /\ [][NextIO]_vars

(***************************************************************************)
(* save_addresses and load_addresses on their own                          *)
(***************************************************************************)
\* Longest list handed to save_addresses
MaxList == 3

\* Every list of at most MaxList accepted strings, repetitions included
CodecLists == UNION {[1..n -> Inputs \ {""}] : n \in 0..MaxList}

InitCodec ==
    /\ accounts \in CodecLists
    /\ balance_history = [a \in {} |-> <<>>]
    /\ file = NoFile
    /\ pc = "codec_list"
    /\ refresh_counter = 0
    /\ idx = 0
    /\ updated_data = <<>>
    /\ data = None
    /\ resp = NoResp
    /\ now = 0
    /\ notice = "none"

CodecFrame == UNCHANGED <<balance_history, refresh_counter, idx, updated_data,
                          data, resp, now, notice>>

\* save_addresses(accounts)
CodecSave ==
    /\ file' = save_addresses(file, accounts)
    /\ pc' = "codec_saved"
    /\ UNCHANGED accounts
    /\ CodecFrame

\* accounts = load_addresses()
CodecLoad ==
    /\ ~LoadRaises(file)
    /\ accounts' = load_addresses(file)
    /\ pc' = "codec_loaded"
    /\ UNCHANGED file
    /\ CodecFrame

\* Another list becomes the tracked list
CodecEdit ==
    /\ \E list \in CodecLists : accounts' = list
    /\ pc' = "codec_list"
    /\ UNCHANGED file
    /\ CodecFrame

NextCodec == CodecSave \/ CodecLoad \/ CodecEdit

SpecCodec == InitCodec /\ [][NextCodec]_vars

(***************************************************************************)
(* The unit conversion alone: one successful response with balance n is   *)
(* converted by fetch_account_data and shown by the table of line 133.    *)
(* In this specification updated_data holds the rows as the table shows   *)
(* them.                                                                   *)
(***************************************************************************)
MaxOffset == 9

\* Whole parts: none, the example of the specification, 2^52 subunits and
\* balances above it (the supply is 2.1 * 10^16 subunits)
ConvWhole == {0, 2, 45035996, 83644704, 122052027}

ConvFrac == UNION {{i, 50000000 + i, 27370490 + i, 96634890 + i, 34005880 + i} :
                   i \in 0..MaxOffset}

ConvResponses == {[kind |-> "ok", balance |-> Num(w, f)] : w \in ConvWhole, f \in ConvFrac}

InitConv ==
    /\ accounts = <<"a1">>
    /\ balance_history = [a \in {"a1"} |-> <<>>]
    /\ file = save_addresses(NoFile, accounts)
    /\ pc = "conv_response"
    /\ refresh_counter = 0
    /\ idx = 1
    /\ updated_data = <<>>
    /\ data = None
    /\ resp \in ConvResponses
    /\ now = 0
    /\ notice = "none"

ConvFrame == UNCHANGED <<accounts, balance_history, file, refresh_counter, idx,
                         now, notice>>

\* data = fetch_account_data(address) on a response that holds a balance
ConvFetch ==
    /\ pc = "conv_response"
    /\ data' = fetch_account_data(accounts[idx], resp).ret
    /\ pc' = "conv_fetched"
    /\ UNCHANGED <<updated_data, resp>>
    /\ ConvFrame

\* st.dataframe(df.style.format({'balance': '{:.8f}'}))
ConvShow ==
    /\ pc = "conv_fetched"
    /\ updated_data' = <<[address |-> data.address, balance |-> Format8f(data.balance)]>>
    /\ pc' = "conv_shown"
    /\ UNCHANGED <<data, resp>>
    /\ ConvFrame

\* The next cycle's response
ConvAgain ==
    /\ pc = "conv_shown"
    /\ resp' \in ConvResponses
    /\ data' = None
    /\ updated_data' = <<>>
    /\ pc' = "conv_response"
    /\ ConvFrame

NextConv == ConvFetch \/ ConvShow \/ ConvAgain

SpecConv == InitConv /\ [][NextConv]_vars

(***************************************************************************)
(* Properties                                                              *)
(***************************************************************************)
\* Addresses with a result in the list update_accounts_data is building
Fetched(ud) == {ud[i].address : i \in 1..Len(ud)}

HistOf(h, a) == IF a \in DOMAIN h THEN h[a] ELSE <<>>

IsPrefix(s, t) == Len(s) <= Len(t) /\ \A i \in 1..Len(s) : s[i] = t[i]

TimeSorted(s) == \A i, j \in 1..Len(s) : i <= j => s[i][1] <= s[j][1]

IsBlank(a) == a \in {"", " "}

\* C1: in every cycle each tracked address whose fetch succeeded gains
\* exactly one sample when the cycle is over, each address whose fetch failed
\* gains none, and a failure of one address never takes away the sample of
\* another: once b's fetch has succeeded, the cycle is left only by recording
\* b's sample.
C1_EverySuccessRecorded ==
    [][\A b \in Range(accounts) :
          (InCycle /\ ~InCycle') =>
             /\ b \in DOMAIN balance_history /\ b \in DOMAIN balance_history'
             /\ IF b \in Fetched(updated_data)
                  THEN Len(balance_history'[b]) = Len(balance_history[b]) + 1
                       /\ IsPrefix(balance_history[b], balance_history'[b])
                  ELSE balance_history'[b] = balance_history[b]]_vars

\* C2: Add of an address that is already tracked is rejected as a duplicate
\* and changes neither the tracked list, nor the history, nor the persisted
\* list; no address ever occurs twice in the tracked list.
C2_DuplicateAddRejected ==
    /\ [][\A a \in Inputs :
            (a \in Range(accounts) /\ AddAccount(a)) =>
               /\ notice' = "duplicate"
               /\ accounts' = accounts
               /\ balance_history' = balance_history
               /\ file' = file]_vars
    /\ [](\A a \in Inputs : Cardinality({i \in 1..Len(accounts) : accounts[i] = a}) <= 1)

C2_Witness ==
    /\ notice = "duplicate"
    /\ pc = "initial" /\ idx = 1
    /\ Len(accounts) = 2

\* C3: Add of an empty or whitespace-only input changes neither the tracked
\* list, nor the history, nor the persisted list; any other input not yet
\* tracked is appended at the end of the tracked list and persisted.
C3_BlankAddRejected ==
    [][\A a \in Inputs :
          AddAccount(a) =>
             IF IsBlank(a)
               THEN accounts' = accounts /\ balance_history' = balance_history /\ file' = file
               ELSE a \notin Range(accounts) =>
                       accounts' = Append(accounts, a) /\ load_addresses(file') = accounts']_vars

\* C4: Delete of a tracked address a leaves a out of the tracked list and out
\* of the history, and leaves the history of every other tracked address as
\* it was.
C4_DeleteDropsOnlyItsOwnHistory ==
    [][\A a \in Inputs :
          DeleteAccount(a) =>
             /\ a \notin Range(accounts')
             /\ a \notin DOMAIN balance_history'
             /\ \A b \in Range(accounts) \ {a} :
                   /\ b \in DOMAIN balance_history /\ b \in DOMAIN balance_history'
                   /\ balance_history'[b] = balance_history[b]]_vars

C4_Witness ==
    /\ notice = "deleted"
    /\ pc = "initial" /\ idx = 1 /\ resp = NoResp
    /\ \E b \in Range(accounts) : Len(balance_history[b]) >= 1
    /\ \E a \in Addr : a \notin Range(accounts) /\ now >= 1

\* C5 as stated: over add, remove and refresh steps no address ever loses
\* recorded samples (an address without an entry has no samples), and the
\* timestamps of every sequence are non-decreasing.
C5_NeverShrinks ==
    /\ [][\A a \in Inputs :
            IsPrefix(HistOf(balance_history, a), HistOf(balance_history', a))]_vars
    /\ [](\A a \in DOMAIN balance_history : TimeSorted(balance_history[a]))

\* C5 amended: for as long as an address stays tracked its history is
\* append-only (every step keeps the former sequence as a prefix of the new
\* one) and its timestamps are non-decreasing; only the removal of the address
\* discards its samples.
C5_AppendOnlyWhileTracked ==
    /\ [][\A a \in DOMAIN balance_history :
            \/ IsPrefix(balance_history[a], HistOf(balance_history', a))
            \/ DeleteAccount(a)]_vars
    /\ [](\A a \in DOMAIN balance_history : TimeSorted(balance_history[a]))

C5_Witness ==
    \E a \in DOMAIN balance_history :
        /\ Len(balance_history[a]) = 2
        /\ balance_history[a][1][1] < balance_history[a][2][1]

C7_LoopNeverStops == [][pc = "refreshing" => pc' # "crashed"]_vars

\* C8: once the session is initialised the persisted list is the tracked
\* list, same addresses in the same order, and after an Add or a Remove that
\* changed the list the file holds exactly that list.
C8_PersistedEqualsTracked ==
    /\ pc # "start" => load_addresses(file) = accounts
    /\ notice \in {"added", "deleted"} => (file.exists /\ file.content = json_dump(accounts))

\* The file rewritten by a Delete that left two of three addresses
C8_Witness ==
    /\ notice = "deleted"
    /\ pc = "initial" /\ idx = 1 /\ resp = NoResp
    /\ file.exists
    /\ Len(load_addresses(file)) = 2

\* C9: the tracked list never holds an address twice, and it changes only by
\* the start-up load, by appending a new address at its end, or by dropping
\* one element with the others keeping their order.
C9_UniqueInInsertionOrder ==
    /\ [](NoDup(accounts))
    /\ [][accounts' # accounts =>
            \/ pc = "start" /\ accounts' = load_addresses(file)
            \/ \E a \in Inputs \ Range(accounts) : accounts' = Append(accounts, a)
            \/ \E i \in 1..Len(accounts) : accounts' = RemoveAt(accounts, i)]_vars

C9_Witness ==
    /\ notice = "deleted"
    /\ Len(accounts) = 2
    /\ pc = "initial" /\ idx = 1 /\ resp = NoResp
    /\ "a1" \notin Range(accounts)

\* C10: a failed fetch never raises and returns a failure that carries the
\* address and the reason of that failure.
C10_FailureReturned ==
    resp.kind \in FailKinds =>
        /\ pc # "crashed"
        /\ {"address", "reason"} \subseteq DOMAIN data
        /\ data.address = accounts[idx - 1]
        /\ data.reason = resp.kind

\* C11: when the write of the persisted list fails during an Add or a
\* Remove, the tracked list and the history both keep the mutation, and the
\* script run goes on to its fetch cycle over the in-memory list.
C11_WriteFailureKeepsRunning ==
    [][\A a \in Inputs :
          (AddAccountWriteFails(a) \/ DeleteAccountWriteFails(a)) =>
             /\ accounts' # accounts
             /\ DOMAIN balance_history' = Range(accounts')
             /\ pc' = IF accounts' = <<>> THEN "ended" ELSE "initial"]_vars

\* The in-memory half of C11 alone
C11_MemoryKeepsMutation ==
    [][\A a \in Inputs :
          /\ AddAccountWriteFails(a) =>
                (accounts' = Append(accounts, a) /\ a \in DOMAIN balance_history')
          /\ DeleteAccountWriteFails(a) =>
                (a \notin Range(accounts') /\ a \notin DOMAIN balance_history')]_vars

\* C12: the first run of a session never fails in load_addresses: it ends
\* with the tracked list read from the file (empty when there is no file) and
\* an empty history for every loaded address.
C12_LoadNeverFails ==
    [][pc = "start" =>
          /\ pc' \in {"initial", "ended"}
          /\ accounts' = load_addresses(file)
          /\ balance_history' = [a \in Range(accounts') |-> <<>>]]_vars

\* C13: load_addresses after save_addresses(S) returns S, same addresses in
\* the same order, and saving what load_addresses returned leaves the
\* persisted list as it was.
C13_SaveLoadRoundTrip ==
    [][/\ pc' = "codec_saved" =>
             (~LoadRaises(file') /\ load_addresses(file') = accounts)
       /\ (pc = "codec_loaded" /\ pc' = "codec_saved") =>
             /\ load_addresses(file') = load_addresses(file)
             /\ file.exists => file' = file]_vars

\* A list of three addresses, two of them equal, saved and loaded back
C13_Witness ==
    /\ pc = "codec_loaded"
    /\ file.exists
    /\ accounts = <<"a2", "a1", "a2">>

\* C14: a fetch cycle, whatever its fetches give, leaves the tracked list and
\* the persisted list as they were; after the start-up load only an Add or a
\* Delete changes them.
C14_CycleKeepsMembership ==
    [][/\ InCycle => (accounts' = accounts /\ file' = file)
       /\ (accounts' # accounts \/ file' # file) =>
             \/ pc = "start"
             \/ \E a \in Inputs : AddAccount(a) \/ DeleteAccount(a)]_vars

\* A timed refresh of two addresses in which one fetch succeeded and the
\* other failed on the response status
C14_Witness ==
    /\ pc = "refreshing"
    /\ Len(accounts) = 2
    /\ idx = 3
    /\ Len(updated_data) = 1
    /\ resp.kind = "status"

\* C15: a Delete request for an address that is not tracked raises nothing
\* and leaves the tracked list, the history and the persisted list unchanged.
C15_DeleteOfUntrackedIsNoOp ==
    [][\A a \in Inputs :
          (a \notin Range(accounts) /\ DeleteAccount(a)) =>
             /\ pc' # "crashed"
             /\ accounts' = accounts
             /\ balance_history' = balance_history
             /\ file' = file]_vars

\* The countdown after "a1" was deleted, where a second Delete request for
\* "a1" finds it untracked
C15_Witness ==
    /\ pc = "idle"
    /\ notice = "deleted"
    /\ "a1" \notin Range(accounts)
    /\ accounts # <<>>
    /\ Room

\* C17: the addresses that have a history entry are exactly the tracked
\* addresses, an entry starts empty, and recording a sample never meets a
\* missing entry (the append loop never raises KeyError).
C17_HistoryKeysAreTracked ==
    /\ [](DOMAIN balance_history = Range(accounts))
    /\ [](~(pc = "crashed" /\ resp = NoResp))
    /\ [][\A a \in DOMAIN balance_history' \ DOMAIN balance_history :
            balance_history'[a] = <<>>]_vars

\* A sample recorded for an address after an Add
C17_Witness ==
    /\ pc = "idle"
    /\ notice = "added"
    /\ Len(accounts) = 2
    /\ \A a \in Range(accounts) : Len(balance_history[a]) = 1

\* The sequencing half of C18: within a cycle the addresses are fetched one
\* at a time in the order of the tracked list; while a fetch of the cycle is
\* outstanding nothing is written to the history, no second passes on the
\* countdown and no cycle starts; the history is written only once every
\* fetch has returned, and a cycle starts only when none is in progress.
SequentialStep ==
    /\ (InCycle /\ idx <= Len(accounts)) =>
          \/ pc' = "crashed"
          \/ /\ pc' = pc
             /\ idx' = idx + 1
             /\ refresh_counter' = refresh_counter
             /\ balance_history' = balance_history
             /\ resp'.kind = "ok" => data'.address = accounts[idx]
             /\ IsPrefix(updated_data, updated_data')
    /\ (InCycle /\ balance_history' # balance_history) =>
          (idx > Len(accounts) /\ ~InCycle')
    /\ (InCycle' /\ idx' = 1) => ~InCycle

C18_NeverOverlaps == [][SequentialStep]_vars

\* C18: refresh cycles are sequential and not re-entrant (addresses fetched
\* one at a time in list order, history written after all fetches, no cycle
\* and no tick during a cycle), and one full cycle always completes before
\* the next starts: a cycle is left only once all its fetches have returned.
C18_FullCycleBeforeNext ==
    [][/\ SequentialStep
       /\ (InCycle /\ ~InCycle') => AllFetched(idx, accounts)]_vars

\* A cycle over three addresses with its second fetch outstanding
C18_Witness ==
    /\ pc = "refreshing"
    /\ Len(accounts) = 3
    /\ idx = 2
    /\ Len(updated_data) = 1

\* C16: for every subunit balance n the endpoint returns, the balance shown
\* is n / 100000000 with exactly 8 decimal places: whole part n div 10^8 and
\* fractional part n mod 10^8.
C16_ShownIsExact ==
    pc = "conv_shown" =>
        updated_data[1].balance = <<Whole(resp.balance), Frac(resp.balance)>>

\* The same for balances below 2^52 subunits, the example 250000000 included
C16_ExactBelowTwo52 ==
    (pc = "conv_shown" /\ Less(resp.balance, MinMant)) =>
        updated_data[1].balance = <<Whole(resp.balance), Frac(resp.balance)>>

\* 250000000 subunits shown as 2.50000000
C16_Example ==
    /\ pc = "conv_shown"
    /\ resp.balance = Num(2, 50000000)
    /\ updated_data[1].balance = <<2, 50000000>>

====
